---- MODULE Spec2Model ----
(***************************************************************************)
(* The L-SHADE generation controller: function apply of pyade/lshade.py.   *)
(*                                                                         *)
(* Real numbers are exact rationals <<numerator, denominator>> with the    *)
(* IEEE special values NaN = <<0,0>> and +-inf = <<+-1,0>>, so that the    *)
(* divisions of the memory update produce what numpy produces.  The        *)
(* external collaborators of pyade.commons (initialisation, mutation,      *)
(* crossover, evaluation) and the random draws are nondeterministic        *)
(* choices from the finite supports of an environment record.              *)
(***************************************************************************)
EXTENDS Integers, Sequences, FiniteSets, TLC

VARIABLES
  pc,                 \* position in apply: start, validated, loop, resample, done, raised
  err,                \* the exception that ended the call, or NoError
  cfg,                \* the arguments of apply
  seeded,             \* np.random.seed / random.seed have been called
  func_calls,         \* number of individuals handed to the objective so far
  population_size, init_size, population, fitness,
  m_cr, m_f, archive, k,
  num_evals, max_iters,
  converge_countdown, best_fitness, fitness_history, current_generation,
  cr, f,              \* the CR and F arrays of the generation under way
  indexes,            \* the positions replaced by the last selection
  result,             \* the returned tuple
  donors,             \* the donor pool handed to the last mutation call
  telemetry,          \* the calls of the callback and what the last one saw
  run, step, journal  \* the generator: which run of apply this is, the
                      \* number of steps it has made, and what the first
                      \* run drew and reached at each step

vars == <<pc, err, cfg, seeded, func_calls, population_size, init_size,
          population, fitness, m_cr, m_f, archive, k, num_evals, max_iters,
          converge_countdown, best_fitness, fitness_history,
          current_generation, cr, f, indexes, result, donors, telemetry,
          run, step, journal>>

---------------------------------------------------------------------------
(* Bounds of the model.                                                    *)

\* Fitness values returned by the objective are 0..MaxFit.
MaxFit == 1
\* Candidate vectors of the search box are the grid points lo..hi <= MaxCoord.
MaxCoord == 1
\* Largest population and memory of the configurations of Spec.
MaxPop == 2
MaxMem == 2
\* Largest evaluation budget of the configurations of Spec.
MaxBudget == 4
\* Longest run, in steps, that the seeded specification follows.
MaxSteps == 9

(* Program constants.                                                      *)
MinPopSize == 4
DefaultConvergeFactor == 2

---------------------------------------------------------------------------
(* Exact rational arithmetic with NaN and infinities.                      *)

Abs(x) == IF x < 0 THEN -x ELSE x
Sgn(x) == IF x < 0 THEN -1 ELSE IF x > 0 THEN 1 ELSE 0

RECURSIVE GCD(_, _)
GCD(a, b) == IF b = 0 THEN a ELSE GCD(b, a % b)

Norm(n, d) ==
  IF d = 0 THEN <<Sgn(n), 0>>
  ELSE LET g == GCD(Abs(n), Abs(d))
           s == IF d < 0 THEN -1 ELSE 1
       IN  <<(s * n) \div g, (s * d) \div g>>

NaN  == <<0, 0>>
Zero == <<0, 1>>
One  == <<1, 1>>
Half == <<1, 2>>
Num(i) == <<i, 1>>

RAdd(a, b) == Norm(a[1] * b[2] + b[1] * a[2], a[2] * b[2])
RMul(a, b) == Norm(a[1] * b[1], a[2] * b[2])
RDiv(a, b) == Norm(a[1] * b[2], a[2] * b[1])
RAbs(a)    == <<Abs(a[1]), a[2]>>
\* Comparisons with NaN are false, as in IEEE arithmetic.
RLe(a, b) ==
  /\ a # NaN /\ b # NaN
  /\ IF a[2] = 0 /\ b[2] = 0 THEN a[1] <= b[1]
     ELSE a[1] * b[2] <= b[1] * a[2]
RLt(a, b) ==
  /\ a # NaN /\ b # NaN
  /\ IF a[2] = 0 /\ b[2] = 0 THEN a[1] < b[1]
     ELSE a[1] * b[2] < b[1] * a[2]
IsFinite(a) == a[2] # 0

RECURSIVE RSum(_)
RSum(s) == IF s = <<>> THEN Zero ELSE RAdd(Head(s), RSum(Tail(s)))

\* np.isnan
IsNaN(a) == a = NaN
\* np.clip(x, 0, 1)
Clip(x) == IF IsNaN(x) THEN NaN
           ELSE IF RLt(x, Zero) THEN Zero
           ELSE IF RLt(One, x) THEN One ELSE x

\* Python's round(n / d) for d > 0: round half to even.
PyRound(n, d) ==
  LET q == n \div d
      r == n - q * d
  IN  IF 2 * r < d THEN q
      ELSE IF 2 * r > d THEN q + 1
      ELSE IF q % 2 = 0 THEN q ELSE q + 1

SetMin(S) == CHOOSE x \in S : \A y \in S : x <= y
\* np.min of a non-empty integer array
SeqMin(s) == SetMin({s[i] : i \in 1..Len(s)})

RECURSIVE Ascending(_)
Ascending(S) == IF S = {} THEN <<>>
                ELSE LET m == SetMin(S) IN <<m>> \o Ascending(S \ {m})

\* numpy fancy indexing a[idx]
Take(a, idx) == [j \in 1..Len(idx) |-> a[idx[j]]]
\* Python's a[:n], n possibly negative
Slice(a, n) ==
  LET m == IF n >= 0 THEN (IF n < Len(a) THEN n ELSE Len(a))
           ELSE (IF Len(a) + n > 0 THEN Len(a) + n ELSE 0)
  IN  [j \in 1..m |-> a[j]]

\* np.argsort on a small array: ascending, ties by original position.
RECURSIVE ArgSortFrom(_, _)
ArgSortFrom(a, left) ==
  IF left = {} THEN <<>>
  ELSE LET v == SetMin({a[i] : i \in left})
           i == SetMin({j \in left : a[j] = v})
       IN  <<i>> \o ArgSortFrom(a, left \ {i})
ArgSort(a) == ArgSortFrom(a, 1..Len(a))

\* np.argmin: first index of the minimum
ArgMin(a) == SetMin({i \in 1..Len(a) : a[i] = SeqMin(a)})

---------------------------------------------------------------------------
(* Python values with their run-time type, for the argument checks.        *)

PyInt(v)      == [type |-> "int", val |-> Num(v)]
PyFloat(n, d) == [type |-> "float", val |-> Norm(n, d)]
PyNone        == [type |-> "NoneType", val |-> Zero]
PyStr         == [type |-> "str", val |-> Zero]
IntOf(x)      == x.val[1]
\* types for which "x <= 0" is defined
Ordered       == {"int", "float"}

NoError == [exc |-> "none", line |-> 0]
Raise(exc, line) == [exc |-> exc, line |-> line]

\* get_default_params(dim)["max_evals_after_converge"]
DefaultConverge(dim) == DefaultConvergeFactor * dim

---------------------------------------------------------------------------
(* The environment: supports of the random draws and of the collaborators. *)

\* What one vectorised call returns: any array of length n over S, or, in a
\* uniform environment, only the arrays whose entries are all equal.
Arrays(n, S, uniform) ==
  IF uniform /\ n > 0 THEN {[i \in 1..n |-> v] : v \in S} ELSE [1..n -> S]

\* Values a Cauchy draw takes in the model: -1/2 and 0 (invalid), 1 (valid)
\* and 3/2 (> 1).
FDraws == {Norm(-1, 2), Zero, One, Norm(3, 2)}
\* Values a Normal draw takes before clipping.
NDraws == {Norm(-1, 2), Half}
FitVals == 0..MaxFit

\* Every draw and every collaborator result is independent per individual.
Wide   == [F |-> FDraws, N |-> NDraws, Fit |-> FitVals, uniform |-> FALSE]
\* Each vectorised call returns the same value for every individual.
Narrow == [F |-> FDraws, N |-> NDraws, Fit |-> FitVals,
           uniform |-> TRUE]

\* scipy.stats.cauchy.rvs(loc, 0.1): any real for a finite loc, loc itself
\* when loc is NaN or infinite.
CauchyDraw(loc, env) == IF IsFinite(loc) THEN env.F ELSE {loc}
\* np.random.normal(loc, 0.1)
NormalDraw(loc, env) == IF IsFinite(loc) THEN env.N ELSE {loc}

\* The candidate vectors inside the bounds.
Box(c) == c.bounds.lo..c.bounds.hi

---------------------------------------------------------------------------
(* The seeded generators.  In a run that is followed (run > 0) every step  *)
(* takes its draws from the generators: the first run of a call journals   *)
(* what they returned, and a second run of the same call gets the same     *)
(* values again when the generators were restarted from the same seed.     *)

\* The state of the controller
Snapshot ==
  <<pc, err, cfg, seeded, func_calls, population_size, init_size, population,
    fitness, m_cr, m_f, archive, k, num_evals, max_iters, converge_countdown,
    best_fitness, fitness_history, current_generation, cr, f, indexes,
    result, donors, telemetry>>

\* Generators that are never restarted from the seed
ReplaysNever == FALSE

\* Lines 79-81: np.random.seed(seed) and random.seed(seed) restart both
\* generators from the state an integer seed fixes; None takes fresh entropy
Replays == seeded' /\ cfg.seed.type # "NoneType"

\* The generators return the draws d to the step under way
Generator(d) ==
  /\ run' = run
  /\ IF run = 0
       THEN step' = step /\ journal' = journal
       ELSE /\ step < MaxSteps
            /\ step' = step + 1
            /\ IF run = 1
                 THEN journal' = Append(journal,
                                        [draws |-> d, state |-> Snapshot'])
                 ELSE /\ journal' = journal
                      /\ Replays =>
                           (step < Len(journal)
                              /\ d = journal[step + 1].draws)

---------------------------------------------------------------------------
(* Step 0: the argument checks, lines 59-78.                               *)

ValidationError(c) ==
  IF c.population_size.type # "int" \/ RLe(c.population_size.val, Zero)
    THEN Raise("ValueError", 61)
  ELSE IF c.individual_size.type # "int" \/ RLe(c.individual_size.val, Zero)
    THEN Raise("ValueError", 64)
  ELSE IF c.max_evals.type # "int" \/ RLe(c.max_evals.val, Zero)
    THEN Raise("ValueError", 67)
  \* "type(x) is not None" is always true, so "x <= 0" is always evaluated
  ELSE IF c.max_evals_after_converge.type \notin Ordered
    THEN Raise("TypeError", 69)
  ELSE IF RLe(c.max_evals_after_converge.val, Zero)
    THEN Raise("ValueError", 70)
  ELSE IF ~c.bounds.ndarray \/ c.bounds.shape # <<IntOf(c.individual_size), 2>>
    THEN Raise("ValueError", 73)
  ELSE IF c.seed.type \notin {"int", "uint32", "uint64"} /\ c.seed.type # "NoneType"
    THEN Raise("ValueError", 78)
  ELSE NoError

Validate ==
  /\ pc = "start"
  /\ LET e == ValidationError(cfg)
     IN  IF e # NoError
           THEN pc' = "raised" /\ err' = e
           ELSE pc' = "validated" /\ err' = err
  /\ UNCHANGED <<cfg, seeded, func_calls, population_size, init_size,
                 population, fitness, m_cr, m_f, archive, k, num_evals,
                 max_iters, converge_countdown, best_fitness,
                 fitness_history, current_generation, cr, f, indexes,
                 result, donors, telemetry>>
  /\ Generator(<<>>)

---------------------------------------------------------------------------
(* Step 1: seeding and initialisation, lines 79-111.                       *)

\* The schedule: round((4 - init_size) / max_evals * evals + init_size)
TargetSize(init, budget, evals) ==
  PyRound((MinPopSize - init) * evals + init * budget, budget)

\* The loop of lines 97-103
RECURSIVE MaxItersFrom(_, _, _, _)
MaxItersFrom(i, count, init, budget) ==
  IF i < budget
    THEN MaxItersFrom(i + TargetSize(init, budget, i), count + 1, init, budget)
    ELSE count

\* Lines 107-111
InitialCountdown(c) ==
  IF c.max_evals_after_converge.type = "int"
       /\ RLt(Zero, c.max_evals_after_converge.val)
    THEN IntOf(c.max_evals_after_converge)
    ELSE DefaultConverge(IntOf(c.individual_size))

Initialize(env) ==
  /\ pc = "validated"
  /\ seeded' = TRUE
  /\ func_calls' = func_calls + population_size
  /\ init_size' = population_size
  /\ m_cr' = [j \in 1..cfg.memory_size |-> Half]
  /\ m_f' = [j \in 1..cfg.memory_size |-> Half]
  /\ archive' = <<>>
  /\ k' = 0
  /\ current_generation' = 0
  /\ num_evals' = population_size
  /\ max_iters' = MaxItersFrom(0, 0, population_size, IntOf(cfg.max_evals))
  /\ fitness_history' = <<>>
  /\ converge_countdown' = InitialCountdown(cfg)
  /\ pc' = "loop"
  /\ UNCHANGED <<err, cfg, population_size, cr, f, indexes, result, donors,
                 telemetry>>
  /\ \E pop \in Arrays(population_size, Box(cfg), env.uniform),
        fit \in Arrays(population_size, env.Fit, env.uniform) :
       /\ population' = pop
       /\ fitness' = fit
       /\ best_fitness' = SeqMin(fit)
       /\ Generator(<<pop, fit>>)

---------------------------------------------------------------------------
(* Step 2.1: adaptation, lines 114-123.                                    *)

\* A loop that watches the countdown only
LoopConditionCountdownOnly == converge_countdown > 0

\* A loop that watches the budget only
LoopConditionBudgetOnly == num_evals < IntOf(cfg.max_evals)

\* Line 112
LoopCondition == num_evals < IntOf(cfg.max_evals) /\ converge_countdown > 0

\* Values a draw located at some slot of the memory can take
CauchySupport(mem, env) == UNION {CauchyDraw(mem[j], env) : j \in 1..Len(mem)}
NormalSupport(mem, env) == UNION {NormalDraw(mem[j], env) : j \in 1..Len(mem)}

\* Lines 116-117: clip, then the sentinel m_cr[r] == 1 forces CR = 0
CrOf(loc, draw) == IF loc = One THEN Zero ELSE Clip(draw)
\* Line 119: f[f > 1] = 0
FOf(draw) == IF RLt(One, draw) THEN Zero ELSE draw

\* Lines 114-119
Sample(env) ==
  /\ pc = "loop"
  /\ LoopCondition
  /\ pc' = "resample"
  /\ UNCHANGED <<err, cfg, seeded, func_calls, population_size, init_size,
                 population, fitness, m_cr, m_f, archive, k, num_evals,
                 max_iters, converge_countdown, best_fitness,
                 fitness_history, current_generation, indexes, result,
                 donors, telemetry>>
  /\ \E r \in Arrays(population_size, 1..cfg.memory_size, env.uniform) :
     \E nd \in Arrays(population_size, NormalSupport(m_cr, env), env.uniform),
        fd \in Arrays(population_size, CauchySupport(m_f, env), env.uniform) :
       /\ \A i \in 1..population_size :
            /\ nd[i] \in NormalDraw(m_cr[r[i]], env)
            /\ fd[i] \in CauchyDraw(m_f[r[i]], env)
       /\ cr' = [i \in 1..population_size |-> CrOf(m_cr[r[i]], nd[i])]
       /\ f' = [i \in 1..population_size |-> FOf(fd[i])]
       /\ Generator(<<r, nd, fd>>)

\* The positions with f <= 0 (a NaN is not <= 0)
Invalid(a) == {i \in 1..Len(a) : RLe(a[i], Zero)}

\* Line 123: f[f <= 0] = draws, the j-th draw to the j-th invalid position
Redrawn(a, d) ==
  [i \in 1..Len(a) |->
     IF i \in Invalid(a)
       THEN d[Cardinality({j \in Invalid(a) : j <= i})]
       ELSE a[i]]

\* One pass of the loop of lines 121-123
Resample(env) ==
  /\ pc = "resample"
  /\ Invalid(f) # {}
  /\ UNCHANGED <<pc, err, cfg, seeded, func_calls, population_size,
                 init_size, population, fitness, m_cr, m_f, archive, k,
                 num_evals, max_iters, converge_countdown, best_fitness,
                 fitness_history, current_generation, cr, indexes, result,
                 donors, telemetry>>
  /\ LET n == Cardinality(Invalid(f))
     IN  \E r \in Arrays(n, 1..cfg.memory_size, env.uniform) :
         \E d \in Arrays(n, CauchySupport(m_f, env), env.uniform) :
           /\ \A j \in 1..n : d[j] \in CauchyDraw(m_f[r[j]], env)
           /\ f' = Redrawn(f, d)
           /\ Generator(<<r, d>>)

\* A pass of the loop of lines 121-123 after which every F is valid
ValidResample(env) == Resample(env) /\ Invalid(f') = {}

---------------------------------------------------------------------------
(* Steps 2.2 and 2.3: variation, selection, archive, memory, shrink and    *)
(* the convergence monitor, lines 125-171.                                 *)

\* pyade.commons.selection: the trial replaces the parent when its fitness
\* is not larger; returns the new population and the replaced positions.
Selection(pop, crossed, fit, c_fit) ==
  LET won == {i \in 1..Len(pop) : c_fit[i] <= fit[i]}
  IN  [population |-> [i \in 1..Len(pop) |->
                         IF i \in won THEN crossed[i] ELSE pop[i]],
       indexes |-> Ascending(won)]

\* Line 136: archive.extend(population[indexes]), population being the one
\* selection returned
ArchiveExtension(old_pop, new_pop, idx) == Take(new_pop, idx)

\* random.sample(a, n): n elements of a without replacement, in any order
RandomSample(a, n) ==
  LET elems == {a[i] : i \in 1..Len(a)}
      Count(s, v) == Cardinality({i \in 1..Len(s) : s[i] = v})
  IN  {s \in [1..n -> elems] : \A v \in elems : Count(s, v) <= Count(a, v)}

\* Lines 138-140
ArchiveTrim(a, idx, size) ==
  IF Len(idx) > 0 /\ Len(a) > size THEN RandomSample(a, size) ELSE {a}

\* Lines 142-143
Weights(fit, c_fit, idx) ==
  LET delta == [j \in 1..Len(idx) |-> Num(Abs(fit[idx[j]] - c_fit[idx[j]]))]
  IN  [j \in 1..Len(idx) |-> RDiv(delta[j], RSum(delta))]

\* sum(w * x ** 2) / sum(w * x)
LehmerMean(w, x) ==
  RDiv(RSum([j \in 1..Len(w) |-> RMul(w[j], RMul(x[j], x[j]))]),
       RSum([j \in 1..Len(w) |-> RMul(w[j], x[j])]))

\* Lines 144-146
NewMCr(w, x) == LET v == LehmerMean(w, x) IN IF IsNaN(v) THEN One ELSE v
\* Line 147
NewMF(w, x) == LehmerMean(w, x)

\* An update that writes the slot after the cursor
MemoryUpdateNextSlot(mem, slot, idx, value) ==
  IF Len(idx) > 0
    THEN [mem EXCEPT ![((slot + 1) % Len(mem)) + 1] = value]
    ELSE mem

\* Lines 138, 144-147: the memory arrays after the update
MemoryUpdate(mem, slot, idx, value) ==
  IF Len(idx) > 0 THEN [mem EXCEPT ![slot + 1] = value] ELSE mem

\* A cursor that advances in every generation
CursorAdvanceAlways(slot, idx, size) ==
  IF slot + 1 = size THEN 0 ELSE slot + 1

\* Lines 138, 148-150
CursorAdvance(slot, idx, size) ==
  IF Len(idx) > 0
    THEN (IF slot + 1 = size THEN 0 ELSE slot + 1)
    ELSE slot

\* A schedule that follows the target in both directions
ShrinksOrGrows(size, target) == size # target

\* Line 155
Shrinks(size, target) == size > target

\* Lines 160-161
CursorGuard(slot, shrinks, init) ==
  IF shrinks /\ slot = init THEN 0 ELSE slot

\* Line 166
Stagnates(prec, fit, best) ==
  prec.type = "float" /\ RLt(RAbs(Num(SeqMin(fit) - best)), prec.val)

\* Lines 166-167
CountdownAfter(count, prec, fit, best) ==
  IF Stagnates(prec, fit, best) THEN count - 1 ELSE count

\* Line 128: the donor pool current_to_pbest_mutation is given (population,
\* fitness, f, p and bounds are its arguments; the archive is not)
MutationDonors(pop, arch) == pop

\* No callback has been called
NoTelemetry == [calls |-> 0, seen |-> <<>>]

\* Lines 163-164: callback(**locals()) at a point where the monitor still
\* holds the values of the generation before
TelemetryAfter(tel, kind, fit) ==
  IF kind = "none" THEN tel
  ELSE [calls |-> tel.calls + 1,
        seen |-> [best_fitness |-> best_fitness,
                  converge_countdown |-> converge_countdown,
                  fitness_history |-> fitness_history,
                  current_generation |-> current_generation,
                  fitness |-> fit]]

\* Line 164 hands the callback the arrays themselves, not copies: a callback
\* that writes to its arguments (here: to the fitness array, whose length
\* it cannot change) changes the arrays of the controller
CallbackWrites(kind, fit, env) ==
  IF kind = "writer"
    THEN {fit} \cup Arrays(Len(fit), env.Fit, env.uniform)
    ELSE {fit}

Evolve(env) ==
  /\ pc = "resample"
  /\ Invalid(f) = {}
  /\ UNCHANGED <<cfg, seeded, init_size, max_iters, result>>
  /\ donors' = MutationDonors(population, archive)
  /\ \E crossed \in Arrays(population_size, Box(cfg), env.uniform),
        c_fitness \in Arrays(population_size, env.Fit, env.uniform) :
       LET sel    == Selection(population, crossed, fitness, c_fitness)
           idx    == sel.indexes
           arch   == archive \o ArchiveExtension(population, sel.population, idx)
           w      == Weights(fitness, c_fitness, idx)
           fit1   == [i \in 1..Len(fitness) |->
                        IF \E j \in 1..Len(idx) : idx[j] = i
                          THEN c_fitness[i] ELSE fitness[i]]
           evals  == num_evals + population_size
           target == TargetSize(init_size, IntOf(cfg.max_evals), evals)
           shrink == Shrinks(population_size, target)
           best   == Slice(ArgSort(fit1), target)
           fit2   == IF shrink THEN Take(fit1, best) ELSE fit1
           k1     == CursorAdvance(k, idx, cfg.memory_size)
       IN  \E arch2 \in ArchiveTrim(arch, idx, population_size),
              fit3 \in CallbackWrites(cfg.callback, fit2, env) :
           /\ func_calls' = func_calls + population_size
           /\ num_evals' = evals
           /\ indexes' = idx
           /\ archive' = arch2
           /\ m_cr' = MemoryUpdate(m_cr, k, idx, NewMCr(w, Take(cr, idx)))
           /\ m_f' = MemoryUpdate(m_f, k, idx, NewMF(w, Take(f, idx)))
           /\ k' = CursorGuard(k1, shrink, init_size)
           /\ population_size' = IF shrink THEN target ELSE population_size
           /\ population' = IF shrink THEN Take(sel.population, best)
                                      ELSE sel.population
           /\ telemetry' = TelemetryAfter(telemetry, cfg.callback, fit2)
           /\ fitness' = fit3
           /\ IF fit3 = <<>>
                THEN \* np.min of an empty array raises
                     /\ pc' = "raised"
                     /\ err' = Raise("ValueError",
                                     IF cfg.precision.type = "float"
                                       THEN 166 ELSE 168)
                     /\ UNCHANGED <<converge_countdown, best_fitness,
                                    fitness_history, current_generation>>
                ELSE /\ pc' = "loop"
                     /\ err' = err
                     /\ converge_countdown' =
                          CountdownAfter(converge_countdown, cfg.precision,
                                         fit3, best_fitness)
                     /\ best_fitness' = IF SeqMin(fit3) < best_fitness
                                          THEN SeqMin(fit3) ELSE best_fitness
                     /\ fitness_history' = Append(fitness_history, SeqMin(fit3))
                     /\ current_generation' = current_generation + 1
           \* cr and f are dead from here on: lines 115 and 118 assign them
           \* anew before the next read, and the model forgets them
           /\ cr' = <<>>
           /\ f' = <<>>
           /\ Generator(<<crossed, c_fitness, arch2>>)

\* Lines 173-177
Return ==
  /\ pc = "loop"
  /\ ~LoopCondition
  /\ result' =
       LET best == ArgMin(fitness)
       IN  IF cfg.return_history
             THEN <<population[best], fitness[best], fitness_history>>
             ELSE <<population[best], fitness[best]>>
  /\ pc' = "done"
  /\ UNCHANGED <<err, cfg, seeded, func_calls, population_size, init_size,
                 population, fitness, m_cr, m_f, archive, k, num_evals,
                 max_iters, converge_countdown, best_fitness,
                 fitness_history, current_generation, cr, f, indexes,
                 donors, telemetry>>
  /\ Generator(<<>>)

---------------------------------------------------------------------------
(* Initial states: a call of apply with some arguments.                    *)

Config(ps, dim, budget, mac, mem, prec, seed, bnd) ==
  [population_size |-> ps, individual_size |-> dim, max_evals |-> budget,
   max_evals_after_converge |-> mac, memory_size |-> mem, precision |-> prec,
   seed |-> seed, bounds |-> bnd, callback |-> "none",
   return_history |-> FALSE]

Bounds(isarray, rows, cols, lo, hi) ==
  [ndarray |-> isarray, shape |-> <<rows, cols>>, lo |-> lo, hi |-> hi]

InitWith(configs, first) ==
  /\ cfg \in configs
  /\ run = first
  /\ step = 0
  /\ journal = <<>>
  /\ donors = <<>>
  /\ telemetry = NoTelemetry
  /\ pc = "start"
  /\ err = NoError
  /\ seeded = FALSE
  /\ func_calls = 0
  /\ population_size = IF cfg.population_size.type = "int"
                         THEN IntOf(cfg.population_size) ELSE 0
  /\ init_size = 0
  /\ population = <<>>
  /\ fitness = <<>>
  /\ m_cr = <<>>
  /\ m_f = <<>>
  /\ archive = <<>>
  /\ k = 0
  /\ num_evals = 0
  /\ max_iters = 0
  /\ converge_countdown = 0
  /\ best_fitness = 0
  /\ fitness_history = <<>>
  /\ current_generation = 0
  /\ cr = <<>>
  /\ f = <<>>
  /\ indexes = <<>>
  /\ result = <<>>

\* Arguments of every kind the checks distinguish.
AnyConfigs ==
  {Config(ps, dim, budget, mac, 1, PyNone, seed,
          Bounds(isarray, rows, 2, 0, MaxCoord)) :
     ps \in {PyInt(MaxPop), PyInt(0), PyFloat(2, 1)},
     dim \in {PyInt(1), PyInt(2), PyInt(-1), PyStr},
     budget \in {PyInt(MaxBudget), PyInt(0), PyFloat(5, 2)},
     mac \in {PyNone, PyInt(3), PyInt(0), PyInt(-1), PyFloat(5, 2),
              PyFloat(-1, 2), PyStr},
     seed \in {PyNone, PyInt(1), PyFloat(1, 2), PyStr},
     isarray \in BOOLEAN,
     rows \in 1..3}

InitConfig == InitWith(AnyConfigs, 0)
NextConfig == Validate \/ Initialize(Wide)
SpecConfig == InitConfig /\ [][NextConfig]_vars

\* Valid arguments with small populations and memories: every draw and
\* every trial is unrestricted.
MainConfigs ==
  {Config(PyInt(ps), PyInt(1), PyInt(budget), PyInt(mac), mem, prec,
          PyInt(1), Bounds(TRUE, 1, 2, 0, MaxCoord)) :
     ps \in 1..MaxPop, budget \in {MaxBudget}, mac \in 1..2,
     mem \in 1..MaxMem, prec \in {PyNone, PyFloat(1, 2)}}

Init == InitWith(MainConfigs, 0)
Next ==
  \/ Validate
  \/ Initialize(Wide)
  \/ Sample(Wide)
  \/ Resample(Wide)
  \/ Evolve(Wide)
  \/ Return
Spec == Init /\ [][Next]_vars

\* Valid arguments whose populations meet the shrink schedule: initial sizes
\* below, at and above the floor of 4, budgets that end inside and past the
\* schedule, a memory longer than the initial population, and a precision
\* given as a float, as an int and not at all.  The search
\* box is a single point, the objective is noisy and the environment is
\* uniform.
ScheduleConfigs ==
  {Config(PyInt(c[1]), PyInt(1), PyInt(c[2]), PyInt(c[4]), c[3], c[5],
          PyNone, Bounds(TRUE, 1, 2, 0, 0)) :
     c \in {<<2, 6, 1, 1, PyNone>>,
            <<2, 6, 3, 2, PyFloat(1, 2)>>,
            <<4, 12, 2, 2, PyFloat(1, 2)>>,
            <<4, 12, 2, 2, PyInt(1)>>,
            <<5, 6, 2, 1, PyNone>>,
            <<5, 12, 2, 2, PyFloat(1, 2)>>,
            <<5, 64, 6, 6, PyFloat(1, 2)>>,
            <<6, 8, 2, 1, PyNone>>,
            <<9, 10, 2, 1, PyNone>>,
            <<10, 11, 2, 1, PyFloat(1, 2)>>}}

InitSchedule == InitWith(ScheduleConfigs, 0)
NextSchedule ==
  \/ Validate
  \/ Initialize(Narrow)
  \/ Sample(Narrow)
  \/ Resample(Narrow)
  \/ Evolve(Narrow)
  \/ Return
SpecSchedule == InitSchedule /\ [][NextSchedule]_vars

\* Initialize and Evolve always have an outcome and always change pc, so
\* in a run with run = 0 these are ENABLED <<Initialize(env)>>_vars and
\* ENABLED <<Evolve(env)>>_vars for every env, in closed form (line 84
\* follows the checks; line 125 follows the loop of line 121 once no F is
\* invalid).
InitializeEnabled == pc = "validated"
EvolveEnabled == pc = "resample" /\ Invalid(f) = {}

\* The interpreter keeps executing: a call that can take a step takes one
\* (weak fairness of every step; that of Initialize and of Evolve is
\* spelled out with the closed forms above).
SpecProgress ==
  /\ SpecSchedule
  /\ WF_vars(Validate)
  /\ ([]<>(~InitializeEnabled) \/ []<><<Initialize(Narrow)>>_vars)
  /\ WF_vars(Sample(Narrow))
  /\ WF_vars(Resample(Narrow))
  /\ ([]<>(~EvolveEnabled) \/ []<><<Evolve(Narrow)>>_vars)
  /\ WF_vars(Return)

\* Besides, the Cauchy draws of line 123, each of which is positive with a
\* probability above 0, do not stay non-positive for ever.
SpecAlmostSure == SpecProgress /\ WF_vars(ValidResample(Narrow))

\* Two runs of one call, the second started when the first has ended: the
\* arguments are the same and the generators are seeded anew.
Rerun ==
  /\ run = 1
  /\ pc \in {"done", "raised"}
  /\ run' = 2
  /\ step' = 0
  /\ pc' = "start"
  /\ err' = NoError
  /\ seeded' = FALSE
  /\ func_calls' = 0
  /\ population_size' = IntOf(cfg.population_size)
  /\ init_size' = 0
  /\ population' = <<>>
  /\ fitness' = <<>>
  /\ m_cr' = <<>>
  /\ m_f' = <<>>
  /\ archive' = <<>>
  /\ k' = 0
  /\ num_evals' = 0
  /\ max_iters' = 0
  /\ converge_countdown' = 0
  /\ best_fitness' = 0
  /\ fitness_history' = <<>>
  /\ current_generation' = 0
  /\ cr' = <<>>
  /\ f' = <<>>
  /\ indexes' = <<>>
  /\ result' = <<>>
  /\ donors' = <<>>
  /\ telemetry' = NoTelemetry
  /\ UNCHANGED <<cfg, journal>>

\* Valid arguments of runs short enough to be followed twice to their end:
\* two generations with an integer seed, one generation with no seed.
SeededConfigs ==
  {[Config(PyInt(ps), PyInt(1), PyInt(2 * ps + gens - 1), PyInt(2), 1,
           PyFloat(1, 2), IF gens = 2 THEN PyInt(1) ELSE PyNone,
           Bounds(TRUE, 1, 2, 0, 1))
      EXCEPT !.return_history = TRUE] :
     ps \in 1..2, gens \in 1..2}

\* The draws of the runs that are followed: F is invalid or valid, CR is
\* one value, and a vectorised call returns the same for every individual.
Followed == [F |-> {Zero, One}, N |-> {Half}, Fit |-> FitVals,
             uniform |-> TRUE]

InitSeeded == InitWith(SeededConfigs, 1)
NextSeeded ==
  \/ Validate
  \/ Initialize(Followed)
  \/ Sample(Followed)
  \/ Resample(Followed)
  \/ Evolve(Followed)
  \/ Return
  \/ Rerun
SpecSeeded == InitSeeded /\ [][NextSeeded]_vars

\* Valid arguments with a callback: one that only reads what it is given
\* and one that writes to it.
CallbackConfigs ==
  {[Config(PyInt(ps), PyInt(1), PyInt(MaxBudget), PyInt(2), mem,
           PyFloat(1, 2), PyInt(1), Bounds(TRUE, 1, 2, 0, MaxCoord))
      EXCEPT !.callback = cb] :
     ps \in 1..MaxPop, mem \in 1..MaxMem, cb \in {"observer", "writer"}}

InitCallback == InitWith(CallbackConfigs, 0)
NextCallback ==
  \/ Validate
  \/ Initialize(Wide)
  \/ Sample(Wide)
  \/ Resample(Wide)
  \/ Evolve(Wide)
  \/ Return
SpecCallback == InitCallback /\ [][NextCallback]_vars

---------------------------------------------------------------------------
(* The claims.                                                             *)

Range(s) == {s[i] : i \in 1..Len(s)}
InUnit(x) == RLe(Zero, x) /\ RLe(x, One)
Initialised == pc \in {"loop", "resample", "done"}
\* A step that runs lines 125-171 of one generation
GenerationStep == pc = "resample" /\ pc' # "resample"

\* C1: every scale factor handed to the mutation step, that is every entry
\* of f once the resample loop has ended, is greater than 0 and at most 1
\* (and so is no NaN).
C1_FInDomain ==
  (pc = "resample" /\ Invalid(f) = {})
    => \A i \in 1..Len(f) : RLt(Zero, f[i]) /\ RLe(f[i], One)

\* C2: every entry of the memories m_cr and m_f is a number in [0,1] in
\* every reachable state; no NaN is stored.
C2_MemoryInUnit ==
  \A j \in 1..Len(m_cr) : InUnit(m_cr[j]) /\ InUnit(m_f[j])

\* C3: at the end of every generation the archive holds at most as many
\* individuals as the population has.
C3_ArchiveBound ==
  (pc \in {"loop", "done"}) => Len(archive) <= population_size

\* C4: the schedule never drives the population size below the floor of 4:
\* a run that starts with at least 4 individuals has at least 4 at every
\* point up to and including termination.
C4_PopulationFloor ==
  (pc \in {"loop", "resample", "done", "raised"} /\ init_size >= MinPopSize)
    => population_size >= MinPopSize

\* C5: the population size never increases: no step raises the size
\* counter or the number of individuals of an initialised population.
C5_SizeNeverIncreases ==
  [][/\ population_size' <= population_size
     /\ Initialised => Len(population') <= Len(population)]_vars

\* C5 witness: a generation has shrunk the population below its initial size.
C5_Shrunk ==
  pc = "loop" /\ current_generation > 0 /\ population_size < init_size
    /\ Len(population) = population_size

\* C6: after the selection of a generation whose archive was not resampled
\* for capacity, the archive contains the parent that stood at every success
\* position before selection.
C6_DisplacedParentsArchived ==
  [][(GenerationStep /\ Len(archive) + Len(indexes') <= population_size)
       => \A j \in 1..Len(indexes') :
            population[indexes'[j]] \in Range(archive')]_vars

\* C7 as stated: a generation with an empty success set leaves m_cr, m_f and
\* the cursor k exactly as they were, whether or not the population shrinks.
C7_EmptySuccessKeepsAll ==
  [][(GenerationStep /\ indexes' = <<>>)
       => (m_cr' = m_cr /\ m_f' = m_f /\ k' = k)]_vars

\* C7 as amended: a generation with an empty success set leaves m_cr and m_f
\* as they were, and leaves k as it was unless the population shrinks in that
\* generation while k equals the initial population size, when k becomes 0.
C7_EmptySuccessKeepsMemory ==
  [][(GenerationStep /\ indexes' = <<>>)
       => /\ m_cr' = m_cr
          /\ m_f' = m_f
          /\ k' = IF population_size' < population_size /\ k = init_size
                    THEN 0 ELSE k]_vars

\* C7 witness: the sixth generation of the run with a memory of 6 and 5
\* initial individuals had no success and shrank the population; the fifth
\* slot had been written, so k was 5 = init_size, and k is 0 now.
C7_CursorResetWithoutSuccess ==
  /\ pc = "loop"
  /\ cfg.memory_size > init_size
  /\ current_generation = 6
  /\ indexes = <<>>
  /\ population_size < init_size
  /\ m_cr[init_size] # Half
  /\ k = 0

\* C8: once the run is initialised the stagnation countdown never increases
\* and is never negative, and no generation starts or completes once it is 0.
C8_CountdownMonotone ==
  /\ [](converge_countdown >= 0)
  /\ [][Initialised =>
          /\ converge_countdown' <= converge_countdown
          /\ converge_countdown = 0 =>
               (pc' # "resample"
                  /\ current_generation' = current_generation)]_vars

\* C8 witness: the run has returned with the countdown at 0 and budget left.
C8_StoppedByCountdown ==
  pc = "done" /\ converge_countdown = 0 /\ num_evals < IntOf(cfg.max_evals)

\* The other arguments pass the checks of lines 60-78.
OthersValid(c) ==
  ValidationError([c EXCEPT !.max_evals_after_converge = PyInt(1)]) = NoError

\* C9: with max_evals_after_converge None, non-positive or no integer (and
\* the other arguments valid) apply raises nothing and starts the countdown
\* at 2 * individual_size; a positive integer is used as given.
C9_CountdownDefault ==
  LET mac == cfg.max_evals_after_converge
      positive_int == mac.type = "int" /\ RLt(Zero, mac.val)
  IN  OthersValid(cfg) =>
        /\ pc # "raised"
        /\ pc = "loop" =>
             converge_countdown =
               IF positive_int THEN IntOf(mac)
               ELSE DefaultConverge(IntOf(cfg.individual_size))

\* The invalid configurations of C10.
InvalidConfig(c) ==
  \/ c.population_size.type # "int" \/ ~RLt(Zero, c.population_size.val)
  \/ c.individual_size.type # "int" \/ ~RLt(Zero, c.individual_size.val)
  \/ c.max_evals.type # "int" \/ ~RLt(Zero, c.max_evals.val)
  \/ (c.individual_size.type = "int"
        /\ c.bounds.shape # <<IntOf(c.individual_size), 2>>)
  \/ c.seed.type \notin {"int", "uint32", "uint64", "NoneType"}

\* C10: an invalid population_size, individual_size, max_evals, bounds shape
\* or seed makes apply raise the configuration error (ValueError) with no
\* generator seeded, no population created and no objective evaluation.
C10_InvalidConfigRejected ==
  (InvalidConfig(cfg) /\ pc # "start")
    => /\ pc = "raised"
       /\ err.exc = "ValueError"
       /\ ~seeded
       /\ population = <<>>
       /\ func_calls = 0

\* C11: a call whose arguments pass validation raises nothing and returns a
\* member of the final, non-empty population with its fitness, which is the
\* minimum of the final fitness array and the lowest minimum any generation
\* has had.
C11_ReturnsBest ==
  /\ (pc = "raised" => ValidationError(cfg) # NoError)
  /\ (pc = "done" =>
        /\ population # <<>>
        /\ \E i \in 1..Len(population) :
             result[1] = population[i] /\ result[2] = fitness[i]
        /\ result[2] = SeqMin(fitness)
        /\ result[2] = best_fitness
        /\ \A g \in 1..Len(fitness_history) : result[2] <= fitness_history[g])

\* The call has ended, with a result or with an exception
Terminated == pc \in {"done", "raised"}

C14_ResampleEnds == (pc = "resample") ~> (pc # "resample")

\* C15: the mutation step of every generation is given the archive as
\* donors besides the population: every individual the archive holds when
\* the generation starts is in the donor pool of its mutation call.
C15_ArchiveIsDonorPool ==
  [][GenerationStep =>
       \A j \in 1..Len(archive) : archive[j] \in Range(donors')]_vars

\* C16: a configured callback has been called once for every generation
\* made, the best_fitness, countdown and fitness history it saw last are
\* those of the end of that generation, and the fitness array of the
\* controller is the one the callback was handed.
C16_CallbackAfterMonitor ==
  (pc \in {"loop", "resample", "done"} /\ cfg.callback # "none"
     /\ current_generation > 0)
    => /\ telemetry.calls = current_generation
       /\ telemetry.seen.best_fitness = best_fitness
       /\ telemetry.seen.converge_countdown = converge_countdown
       /\ telemetry.seen.fitness_history = fitness_history
       /\ telemetry.seen.fitness = fitness

\* A precision threshold has been given
Configured(prec) == prec.type # "NoneType"

\* C17: a generation lowers the countdown by exactly 1 if a precision is
\* configured and |min(fitness) - best_fitness| < precision for the
\* best_fitness of before the generation, and leaves it alone otherwise;
\* best_fitness is lowered to min(fitness) afterwards; with no precision
\* the countdown keeps its initial value for the whole run.
C17_CountdownRule ==
  /\ [][(GenerationStep /\ pc' = "loop") =>
          /\ converge_countdown' =
               IF /\ Configured(cfg.precision)
                  /\ RLt(RAbs(Num(SeqMin(fitness') - best_fitness)),
                         cfg.precision.val)
                 THEN converge_countdown - 1
                 ELSE converge_countdown
          /\ best_fitness' = IF SeqMin(fitness') < best_fitness
                               THEN SeqMin(fitness') ELSE best_fitness]_vars
  /\ []((Initialised /\ ~Configured(cfg.precision))
          => converge_countdown = InitialCountdown(cfg))

\* C18: the cursor k is at least 0 and below memory_size in every state of
\* the run; a generation with successes writes the slot k pointed to at its
\* start, in m_cr and in m_f, with the Lehmer means weighted by the fitness
\* differences between the parents as they were before selection and their
\* trials, and leaves every other slot of both arrays as it was.
C18_CursorAndSlot ==
  /\ [](Initialised => (k >= 0 /\ k < cfg.memory_size))
  /\ [][(GenerationStep /\ indexes' # <<>>) =>
          /\ \A j \in 1..cfg.memory_size :
               j # k + 1 => (m_cr'[j] = m_cr[j] /\ m_f'[j] = m_f[j])
          /\ Len(fitness') = Len(fitness) =>
               LET w == Weights(fitness, fitness', indexes')
               IN  /\ m_cr'[k + 1] = NewMCr(w, Take(cr, indexes'))
                   /\ m_f'[k + 1] = NewMF(w, Take(f, indexes'))]_vars

\* C18 witness: the first generation had successes with F = 1 and differing
\* fitness; slot 0 of m_f holds their mean 1, slot 1 is untouched and the
\* cursor has moved to 1.
C18_FirstSlotWritten ==
  /\ pc = "loop"
  /\ current_generation = 1
  /\ indexes # <<>>
  /\ cfg.memory_size > 1
  /\ k = 1
  /\ m_f[1] = One
  /\ m_f[2] = Half

\* C19: in every state of the run the population and the fitness array
\* have the length the population-size counter gives, so that a shrink
\* leaves exactly as many individuals as the schedule's target.
C19_SizesAgree ==
  pc \in {"loop", "resample", "done", "raised"} =>
    (Len(population) = population_size /\ Len(fitness) = population_size)

====
